---- MODULE Spec2Model ----
(***************************************************************************)
(* Model of src/qudi/hardware/adlink/adlink_callback_functions.c: the      *)
(* double-buffer callbacks (sum_buffer_callback, copy_double_buffer_       *)
(* callback and its restart variant), the ring buffer cursors, and the     *)
(* file writer thread with its create/close lifecycle.                     *)
(*                                                                         *)
(* C arrays are 0-based; the sequences below are 1-based, so C position p  *)
(* is sequence index p + 1.  Cursors keep their C (0-based) values.        *)
(***************************************************************************)
EXTENDS Integers, Sequences, FiniteSets, TLC

(* ---------------------------- bounds ----------------------------------- *)
\* largest chunk length (buffer_size) the host configures
MaxBufferSize == 4
\* largest ring capacity in chunks (total_buffer_length)
MaxRingLength == 2
\* largest number_of_measurements the host configures (accumulate mode)
MaxMeasurements == 2
\* number of chunks the driver delivers in one run
MaxDeliveries == 3
\* number of write_to_file calls in one run
MaxWriterCalls == 3
\* number of close_file_writer_thread calls in a row
MaxCloseCalls == 2
\* number of failing library calls (fwrite, fopen_s, CreateThread) in one run
MaxFaults == 1

(* --------------------------- state ------------------------------------- *)
VARIABLES
  \* host configuration (globals the host writes before the measurement)
  buffer_size,                \* unsigned long buffer_size
  total_buffer_length,        \* unsigned long total_buffer_length  (L)
  number_of_measurements,     \* unsigned long number_of_measurements
  callback,                   \* which callback the host registered with the driver
  \* buffers
  ai_buff,                    \* ai_buff1_address (slot 0), ai_buff2_address (slot 1)
  total_buffer,               \* total_buffer_address[0 .. L*buffer_size)
  qudi_buffer,                \* qudi_buffer_address[0 .. buffer_size)
  \* cursors and slot id
  current_buffer_position,    \* W
  current_writer_position,    \* R
  buffer_id,
  \* restart hook, storage, thread
  python_restart_function_ptr,
  file_pointer,               \* "NULL" or "open"
  file,                       \* samples appended to the storage destination
  file_writer_stop,
  thread_handle,              \* "NULL" or "valid"
  \* positions of the three execution contexts
  cpc,                        \* driver callback context
  wpc,                        \* file_writer thread
  hpc,                        \* host thread (create/close calls)
  number_of_elements,         \* local of write_to_file
  number_writer_called,       \* unsigned long number_writer_called
  \* history (not program state)
  driver_slot,                \* hardware buffer the driver fills next
  delivered,                  \* hardware buffer contents, one per delivery
  read_log,                   \* slot read by each callback invocation
  entry_id,                   \* buffer_id at entry of the current/last invocation
  flushed,                    \* samples the writer has advanced R over
  overrun,                    \* at some moment the ring was full of unflushed
                              \* samples, or W was advanced onto R
  data_lost,                  \* a chunk was copied over samples not yet flushed
  faults,                     \* failed library calls so far
  last_tick,                  \* cursors, stream and counts of the current/last
                              \* write_to_file
  hook_log,                   \* <<W, buffer_id>> seen by each hook invocation
  last_close,                 \* handle and stream the latest close_file_writer_thread
                              \* passed to CloseHandle and fclose
  misuse,                     \* out-of-bounds copies and calls through NULL so far
  error_printed,              \* error_printer has written to stdout
  crashed                     \* the process has been terminated

cfg_vars == <<buffer_size, total_buffer_length, number_of_measurements, callback>>
engine_vars == <<ai_buff, total_buffer, qudi_buffer, current_buffer_position,
                 buffer_id, cpc, driver_slot, delivered, read_log, entry_id,
                 hook_log>>
writer_vars == <<current_writer_position, file, wpc, number_of_elements,
                 number_writer_called, flushed, faults, last_tick>>
host_vars == <<python_restart_function_ptr, file_pointer, file_writer_stop,
               thread_handle, hpc, error_printed>>
ghost_vars == <<overrun, data_lost, last_close>>
vars == <<cfg_vars, engine_vars, writer_vars, host_vars, ghost_vars, misuse, crashed>>

(* --------------------------- helpers ----------------------------------- *)
Max(a, b) == IF a >= b THEN a ELSE b

Zeros(n) == [p \in 1..n |-> 0]

\* total_buffer_length * buffer_size.  The cursors and sizes are unsigned
\* long (32 bits); every value the bounds below allow is far under 2^31, and
\* the one subtraction (in NumberOfElements) is taken only when its result is
\* positive, so the unsigned arithmetic is exact here.
RingSamples == total_buffer_length * buffer_size

\* samples one hardware buffer holds: sum_buffer reads
\* number_of_measurements * buffer_size of them, memcpy reads buffer_size
HwSamples == buffer_size * Max(number_of_measurements, 1)

Callbacks == {"sum_buffer_callback", "copy_double_buffer_callback",
              "copy_double_buffer_callback_python_restart"}

AppendMode == callback # "sum_buffer_callback"

\* chunk lengths the host configures: single samples and full chunks where
\* samples are summed, full chunks with the plain copy callback, single
\* samples with its restart variant (which runs the plain one unchanged)
BufferSizes ==
  IF callback = "sum_buffer_callback" THEN {1, MaxBufferSize}
  ELSE IF callback = "copy_double_buffer_callback" THEN {MaxBufferSize}
  ELSE {1}

\* the n-th hardware buffer content the driver can deliver: a ramp of
\* distinct samples (1, 2, 3, ...) continuing across deliveries; where the
\* samples are summed, also its negation
DriverChunks(n) ==
  { [p \in 1..HwSamples |-> sign * ((n - 1) * HwSamples + p)] :
      sign \in (IF AppendMode THEN {1} ELSE {1, -1}) }

\* the first buffer_size samples of a delivered hardware buffer
Chunk(k) == SubSeq(delivered[k], 1, buffer_size)

RECURSIVE Concat(_, _)
\* concatenation of the chunks k..Len(delivered)
Concat(k, n) == IF k > n THEN <<>> ELSE Chunk(k) \o Concat(k + 1, n)

IsPrefix(s, t) == Len(s) <= Len(t) /\ SubSeq(t, 1, Len(s)) = s

(* ------------------- functions of the C file --------------------------- *)
\* memcpy(dst + pos, src, n * sizeof(short)): n samples of src to dst[pos ..)
Memcpy(dst, pos, src, n) ==
  [p \in 1..Len(dst) |-> IF pos < p /\ p <= pos + n THEN src[p - pos] ELSE dst[p]]

\* variant: both cases leave buffer_id = 1
FlipBufferIdStuck(id) == 1

\* buffer_id = 1 in case 0, buffer_id = 0 in case 1
FlipBufferId(id) == IF id = 0 THEN 1 ELSE 0

\* variant: the wrap check left out
WrapBufferPositionNever(pos) == pos

\* variant: the wrap check written with > in place of >=
WrapBufferPositionPastEnd(pos) == IF pos > RingSamples THEN 0 ELSE pos

\* if (current_buffer_position >= total_buffer_length * buffer_size) -> 0
WrapBufferPosition(pos) == IF pos >= RingSamples THEN 0 ELSE pos

\* if (current_writer_position >= total_buffer_length * buffer_size) -> 0
WrapWriterPosition(pos) == IF pos >= RingSamples THEN 0 ELSE pos

RECURSIVE SumColumn(_, _, _)
\* buffer_address[0*buffer_size + j] + ... + buffer_address[(i-1)*buffer_size + j]
SumColumn(buf, i, j) ==
  IF i = 0 THEN 0 ELSE SumColumn(buf, i - 1, j) + buf[(i - 1) * buffer_size + j + 1]

\* variant: the loop over number_of_measurements left out
SumBufferFirstSegment(acc, buf) == [p \in 1..Len(acc) |-> acc[p] + buf[p]]

\* sum_buffer: qudi_buffer_address[j] += buffer_address[i * buffer_size + j]
\* for i < number_of_measurements, j < buffer_size
SumBuffer(acc, buf) ==
  [p \in 1..Len(acc) |-> acc[p] + SumColumn(buf, number_of_measurements, p - 1)]

\* variant: the negative difference is not replaced
NumberOfElementsUnchecked(w, r) == w - r

\* write_to_file: (long long)current_buffer_position - current_writer_position,
\* replaced by the run up to the ring end when negative
NumberOfElements(w, r) ==
  IF w - r < 0 THEN (total_buffer_length * buffer_size - r) ELSE w - r

\* variant: fwrite is handed the start of the ring
RingRunFromStart(r, n) == SubSeq(total_buffer, 1, n)

\* the samples fwrite is handed: total_buffer_address[r .. r + n)
RingRun(r, n) == SubSeq(total_buffer, r + 1, r + n)

\* the element count a short or failed fwrite reports for a request of n:
\* half of it (none of a single sample)
ShortCounts(n) == {k \in 0..(n - 1) : k = n \div 2}

\* variant: the loop never looks at the stop flag
LoopConditionAlways(stop) == TRUE

\* file_writer: while (!file_writer_stop)
LoopCondition(stop) == stop = 0

\* variant: the writer thread always finds nothing new
NothingNewAlways(r, w) == TRUE

\* file_writer: if (current_writer_position == current_buffer_position)
NothingNew(r, w) == r = w

\* variant: the wait returns at once, whatever the thread is doing
WaitReturnsAtOnce(handle, pc) == TRUE

\* WaitForSingleObject(thread_handle, INFINITE) returns when the thread has
\* ended, or at once (WAIT_FAILED) for a NULL handle
WaitReturns(handle, pc) == handle = "NULL" \/ pc = "exited"

\* variant: the restart variant returns without calling the hook
AfterCopyDoubleBufferCallbackNoHook == "idle"

\* where control goes when copy_double_buffer_callback returns: to the
\* python_restart_function_ptr() call in the restart variant, else to the driver
AfterCopyDoubleBufferCallback ==
  IF callback = "copy_double_buffer_callback_python_restart" THEN "hook" ELSE "idle"

NoTick == [r_old |-> 0, w_obs |-> 0, requested |-> 0, stream |-> "none",
           written |-> 0, advanced |-> 0, phase |-> "none"]

\* samples copied into the ring and not yet passed by the writer cursor
Unflushed == Len(read_log) * buffer_size - flushed

(* ----------------------------- Init ------------------------------------ *)
Configure(ids) ==
  /\ callback \in Callbacks
  /\ buffer_size \in BufferSizes
  /\ total_buffer_length \in (IF AppendMode THEN 1..MaxRingLength ELSE {1})
  /\ number_of_measurements \in (IF AppendMode THEN {1} ELSE 0..MaxMeasurements)
  /\ buffer_id \in ids
  /\ ai_buff = [s \in 0..1 |-> Zeros(HwSamples)]
  /\ total_buffer = Zeros(total_buffer_length * buffer_size)
  /\ qudi_buffer = Zeros(buffer_size)
  /\ current_buffer_position = 0
  /\ current_writer_position = 0
  /\ python_restart_function_ptr = "NULL"
  /\ file_pointer = "NULL"
  /\ file = <<>>
  /\ file_writer_stop = 0
  /\ thread_handle = "NULL"
  /\ cpc = "idle" /\ wpc = "none" /\ hpc = "idle"
  /\ number_of_elements = 0
  /\ number_writer_called = 0
  /\ driver_slot = 0
  /\ delivered = <<>>
  /\ read_log = <<>>
  /\ entry_id = 0
  /\ flushed = 0
  /\ overrun = FALSE
  /\ data_lost = FALSE
  /\ last_close = [created |-> FALSE, calls |-> 0, handle |-> "none", stream |-> "none"]
  /\ faults = 0
  /\ last_tick = NoTick
  /\ hook_log = <<>>
  /\ misuse = {}
  /\ error_printed = FALSE
  /\ crashed = FALSE

\* the globals as the loader zero-initialises them, plus the host's configuration
Init == Configure({0})

(* ----------------------- driver (environment) -------------------------- *)
\* The vendor driver completes a chunk in the hardware buffer it fills next
\* and invokes the registered callback; it waits for the callback to return
\* before the next invocation.
DriverDeliver ==
  /\ ~crashed /\ cpc = "idle" /\ Len(delivered) < MaxDeliveries
  /\ \E c \in DriverChunks(Len(delivered) + 1) :
       /\ ai_buff' = [ai_buff EXCEPT ![driver_slot] = c]
       /\ delivered' = Append(delivered, c)
  /\ driver_slot' = 1 - driver_slot
  /\ entry_id' = buffer_id
  /\ cpc' = "called"
  /\ UNCHANGED <<cfg_vars, total_buffer, qudi_buffer, current_buffer_position,
                 buffer_id, read_log, hook_log, writer_vars, host_vars,
                 ghost_vars, misuse, crashed>>

(* ------------------------ Transfer Engine ------------------------------ *)
\* sum_buffer_callback: the whole switch
sum_buffer_callback ==
  /\ ~crashed /\ cpc = "called" /\ callback = "sum_buffer_callback"
  /\ IF buffer_id \in {0, 1}
       THEN /\ qudi_buffer' = SumBuffer(qudi_buffer, ai_buff[buffer_id])
            /\ read_log' = Append(read_log, buffer_id)
            /\ buffer_id' = FlipBufferId(buffer_id)
       ELSE UNCHANGED <<qudi_buffer, read_log, buffer_id>>
  /\ cpc' = "idle"
  /\ UNCHANGED <<cfg_vars, ai_buff, total_buffer, current_buffer_position,
                 driver_slot, delivered, entry_id, hook_log, writer_vars,
                 host_vars, ghost_vars, misuse, crashed>>

\* copy_double_buffer_callback, the memcpy of case 0 / case 1 (no case matches
\* any other buffer_id: control goes on to the wrap check)
copy_double_buffer_callback_memcpy ==
  /\ ~crashed /\ cpc = "called" /\ AppendMode
  /\ IF buffer_id \in {0, 1}
       THEN /\ total_buffer' = Memcpy(total_buffer, current_buffer_position,
                                      ai_buff[buffer_id], buffer_size)
            /\ read_log' = Append(read_log, buffer_id)
            /\ overrun' = (overrun \/ Unflushed + buffer_size >= RingSamples)
            /\ data_lost' = (data_lost \/ Unflushed + buffer_size > RingSamples)
            /\ misuse' = IF current_buffer_position + buffer_size > Len(total_buffer)
                           THEN misuse \cup {"memcpy_out_of_bounds"} ELSE misuse
            /\ cpc' = "copied"
       ELSE /\ UNCHANGED <<total_buffer, read_log, overrun, data_lost, misuse>>
            /\ cpc' = "wrapchk"
  /\ UNCHANGED <<cfg_vars, ai_buff, qudi_buffer, current_buffer_position,
                 buffer_id, driver_slot, delivered, entry_id, hook_log,
                 writer_vars, host_vars, last_close, crashed>>

\* current_buffer_position += buffer_size; buffer_id = 1 - buffer_id.
\* current_buffer_position is a plain global read by the writer thread
\* without synchronisation: the build may store the incremented value before
\* the wrap check, or keep it in a register and store only the wrapped value.
copy_double_buffer_callback_advance ==
  /\ ~crashed /\ cpc = "copied"
  /\ \E stored \in {(current_buffer_position + buffer_size),
                    WrapBufferPosition((current_buffer_position + buffer_size))} :
       current_buffer_position' = stored
  /\ buffer_id' = FlipBufferId(buffer_id)
  /\ overrun' = (overrun \/ WrapBufferPosition(current_buffer_position + buffer_size)
                             = WrapWriterPosition(current_writer_position))
  /\ cpc' = "wrapchk"
  /\ UNCHANGED <<cfg_vars, ai_buff, total_buffer, qudi_buffer, driver_slot,
                 delivered, read_log, entry_id, hook_log, writer_vars, host_vars,
                 data_lost, last_close, misuse, crashed>>

\* variant: the wrap resets the writer cursor along with W
copy_double_buffer_callback_wrap_both ==
  /\ ~crashed /\ cpc = "wrapchk"
  /\ current_buffer_position' = WrapBufferPosition(current_buffer_position)
  /\ current_writer_position' =
       IF current_buffer_position >= RingSamples THEN 0 ELSE current_writer_position
  /\ cpc' = AfterCopyDoubleBufferCallback
  /\ UNCHANGED <<cfg_vars, ai_buff, total_buffer, qudi_buffer, buffer_id,
                 driver_slot, delivered, read_log, entry_id, hook_log,
                 file, wpc, number_of_elements, number_writer_called, flushed,
                 faults, last_tick, host_vars, ghost_vars, misuse, crashed>>

\* if (current_buffer_position >= total_buffer_length * buffer_size) ... = 0
copy_double_buffer_callback_wrap ==
  /\ ~crashed /\ cpc = "wrapchk"
  /\ current_buffer_position' = WrapBufferPosition(current_buffer_position)
  /\ cpc' = AfterCopyDoubleBufferCallback
  /\ UNCHANGED <<cfg_vars, ai_buff, total_buffer, qudi_buffer, buffer_id,
                 driver_slot, delivered, read_log, entry_id, hook_log,
                 writer_vars, host_vars, ghost_vars, misuse, crashed>>

\* copy_double_buffer_callback_python_restart: python_restart_function_ptr()
\* after copy_double_buffer_callback has returned.  A call through the unset
\* (zero-initialised) pointer is an access violation.
copy_double_buffer_callback_python_restart ==
  /\ ~crashed /\ cpc = "hook"
  /\ IF python_restart_function_ptr = "NULL"
       THEN /\ misuse' = misuse \cup {"call_NULL_function_pointer"}
            /\ crashed' = TRUE
            /\ UNCHANGED hook_log
       ELSE /\ hook_log' = Append(hook_log, <<current_buffer_position, buffer_id>>)
            /\ UNCHANGED <<misuse, crashed>>
  /\ cpc' = "idle"
  /\ UNCHANGED <<cfg_vars, ai_buff, total_buffer, qudi_buffer,
                 current_buffer_position, buffer_id, driver_slot, delivered,
                 read_log, entry_id, writer_vars, host_vars, ghost_vars>>

(* --------------------------- Drain Thread ------------------------------ *)
\* file_writer: while (!file_writer_stop)
file_writer_loop ==
  /\ ~crashed /\ wpc = "loop"
  /\ wpc' = IF LoopCondition(file_writer_stop) THEN "compare" ELSE "exited"
  /\ last_tick' = NoTick
  /\ UNCHANGED <<cfg_vars, engine_vars, current_writer_position, file,
                 number_of_elements, number_writer_called, flushed, faults,
                 host_vars, ghost_vars, misuse, crashed>>

\* file_writer: if (current_writer_position == current_buffer_position)
\*   { Sleep; continue; }  else write_to_file()
file_writer_compare ==
  /\ ~crashed /\ wpc = "compare"
  /\ wpc' = IF NothingNew(current_writer_position, current_buffer_position)
              THEN "loop" ELSE "read"
  /\ UNCHANGED <<cfg_vars, engine_vars, current_writer_position, file,
                 number_of_elements, number_writer_called, flushed, faults, last_tick,
                 host_vars, ghost_vars, misuse, crashed>>

\* write_to_file: number_of_elements is computed from a fresh read of
\* current_buffer_position
write_to_file_read ==
  /\ ~crashed /\ wpc = "read"
  /\ number_writer_called < MaxWriterCalls
  /\ number_writer_called' = number_writer_called + 1
  /\ number_of_elements' =
       NumberOfElements(current_buffer_position, current_writer_position)
  /\ last_tick' = [r_old |-> current_writer_position,
                   w_obs |-> current_buffer_position,
                   requested |-> number_of_elements', stream |-> "none",
                   written |-> 0, advanced |-> 0, phase |-> "read"]
  /\ wpc' = "fwrite"
  /\ UNCHANGED <<cfg_vars, engine_vars, current_writer_position, file,
                 flushed, faults, host_vars, ghost_vars, misuse, crashed>>

\* write_to_file: fwrite(&total_buffer_address[current_writer_position],
\*   buffer_element_size, number_of_elements, file_pointer).  It appends all
\* requested samples, or fewer (a short write or an error); on a NULL stream
\* the C runtime either terminates the process or returns 0.
write_to_file_fwrite ==
  /\ ~crashed /\ wpc = "fwrite"
  /\ \/ /\ file_pointer = "open"
        /\ \E k \in {number_of_elements} \cup
                    (IF faults < MaxFaults
                       THEN ShortCounts(number_of_elements) ELSE {}) :
             /\ file' = file \o RingRun(current_writer_position, k)
             /\ faults' = faults + (IF k < number_of_elements THEN 1 ELSE 0)
             /\ last_tick' = [last_tick EXCEPT !.stream = "open", !.written = k,
                                               !.phase = "written"]
        /\ UNCHANGED crashed
     \/ /\ file_pointer = "NULL"
        /\ crashed' \in BOOLEAN
        /\ last_tick' = [last_tick EXCEPT !.stream = "NULL", !.written = 0,
                                          !.phase = "written"]
        /\ UNCHANGED <<file, faults>>
  /\ wpc' = "advance"
  /\ UNCHANGED <<cfg_vars, engine_vars, current_writer_position,
                 number_of_elements, number_writer_called, flushed, host_vars,
                 ghost_vars, misuse>>

\* write_to_file: current_writer_position += number_of_elements.  As for
\* current_buffer_position, the incremented value may or may not reach
\* memory before the wrap check.
write_to_file_advance ==
  /\ ~crashed /\ wpc = "advance"
  /\ \E stored \in {(current_writer_position + number_of_elements),
                    WrapWriterPosition((current_writer_position + number_of_elements))} :
       current_writer_position' = stored
  /\ flushed' = flushed + number_of_elements
  /\ last_tick' = [last_tick EXCEPT !.advanced = number_of_elements,
                                    !.phase = "advanced"]
  /\ wpc' = "wrapchk"
  /\ UNCHANGED <<cfg_vars, engine_vars, file, number_of_elements,
                 number_writer_called, faults,
                 host_vars, ghost_vars, misuse, crashed>>

\* write_to_file: if (current_writer_position >= total_buffer_length *
\* buffer_size) current_writer_position = 0; then back in file_writer: Sleep
write_to_file_wrap ==
  /\ ~crashed /\ wpc = "wrapchk"
  /\ current_writer_position' = WrapWriterPosition(current_writer_position)
  /\ last_tick' = [last_tick EXCEPT !.phase = "done"]
  /\ wpc' = "loop"
  /\ UNCHANGED <<cfg_vars, engine_vars, file, number_of_elements, number_writer_called, flushed,
                 faults, host_vars, ghost_vars, misuse, crashed>>

(* ------------------------------ host ----------------------------------- *)
\* set_restart_function_pointer, called by a host that registered the
\* restart variant, before the measurement starts
set_restart_function_pointer ==
  /\ ~crashed /\ hpc = "idle"
  /\ callback = "copy_double_buffer_callback_python_restart"
  /\ python_restart_function_ptr = "NULL" /\ delivered = <<>> 
  /\ python_restart_function_ptr' = "hook"
  /\ UNCHANGED <<cfg_vars, engine_vars, writer_vars, file_pointer,
                 file_writer_stop, thread_handle, hpc, error_printed,
                 ghost_vars, misuse, crashed>>

\* create_file_writer_thread: file_writer_stop = 0; create_file_writer()
\* (fopen_s, which leaves file_pointer NULL when it fails); CreateThread
\* (which returns NULL when it fails).  Neither result is examined.
\* The host calls it in append mode while no writer thread exists.
create_file_writer_thread ==
  /\ ~crashed /\ hpc = "idle" /\ AppendMode
  /\ thread_handle = "NULL" /\ wpc = "none"
  /\ file_writer_stop' = 0
  /\ \E opened, started \in BOOLEAN :
       /\ faults + (IF opened THEN 0 ELSE 1) + (IF started THEN 0 ELSE 1) <= MaxFaults
       /\ faults' = faults + (IF opened THEN 0 ELSE 1) + (IF started THEN 0 ELSE 1)
       /\ file_pointer' = IF opened THEN "open" ELSE "NULL"
       /\ thread_handle' = IF started THEN "valid" ELSE "NULL"
       /\ wpc' = IF started THEN "loop" ELSE "none"
       /\ last_close' = [created |-> opened /\ started, calls |-> 0,
                         handle |-> "none", stream |-> "none"]
  /\ UNCHANGED <<cfg_vars, engine_vars, current_writer_position, file,
                 number_of_elements, number_writer_called, flushed, last_tick,
                 python_restart_function_ptr, hpc, error_printed,
                 overrun, data_lost, misuse, crashed>>

\* close_file_writer_thread: file_writer_stop = 1, then WaitForSingleObject
close_file_writer_thread_stop ==
  /\ ~crashed /\ hpc = "idle" /\ AppendMode
  /\ last_close.calls < MaxCloseCalls
  /\ file_writer_stop' = 1
  /\ hpc' = "waiting"
  /\ UNCHANGED <<cfg_vars, engine_vars, writer_vars, python_restart_function_ptr,
                 file_pointer, thread_handle, error_printed, ghost_vars, misuse,
                 crashed>>

\* close_file_writer_thread after the wait: once WaitForSingleObject has
\* returned, CloseHandle, thread_handle = NULL, close_file_writer() (fclose
\* and file_pointer = NULL); a thread that has ended is gone.  fclose(NULL) is undefined: the C runtime either
\* terminates the process or returns EOF.
close_file_writer_thread_join ==
  /\ ~crashed /\ hpc = "waiting"
  /\ WaitReturns(thread_handle, wpc)
  /\ crashed' \in (IF file_pointer = "NULL" THEN BOOLEAN ELSE {FALSE})
  /\ thread_handle' = "NULL"
  /\ wpc' = IF wpc = "exited" THEN "none" ELSE wpc
  /\ file_pointer' = "NULL"
  /\ hpc' = "idle"
  /\ last_close' = [created |-> last_close.created,
                    calls |-> last_close.calls + 1,
                    handle |-> thread_handle, stream |-> file_pointer]
  /\ UNCHANGED <<cfg_vars, engine_vars, current_writer_position, file,
                 number_of_elements, number_writer_called, flushed, faults, last_tick,
                 python_restart_function_ptr, file_writer_stop, error_printed,
                 overrun, data_lost, misuse>>

(* --------------------------- specification ----------------------------- *)
Next ==
  \/ DriverDeliver
  \/ sum_buffer_callback
  \/ copy_double_buffer_callback_memcpy
  \/ copy_double_buffer_callback_advance
  \/ copy_double_buffer_callback_wrap
  \/ copy_double_buffer_callback_python_restart
  \/ file_writer_loop
  \/ file_writer_compare
  \/ write_to_file_read
  \/ write_to_file_fwrite
  \/ write_to_file_advance
  \/ write_to_file_wrap
  \/ set_restart_function_pointer
  \/ create_file_writer_thread
  \/ close_file_writer_thread_stop
  \/ close_file_writer_thread_join

Spec == Init /\ [][Next]_vars

(* ------------------------- fair scheduling ----------------------------- *)
\* a step of the driver's callback once the driver has invoked it
EngineStep ==
  \/ sum_buffer_callback
  \/ copy_double_buffer_callback_memcpy
  \/ copy_double_buffer_callback_advance
  \/ copy_double_buffer_callback_wrap
  \/ copy_double_buffer_callback_python_restart

\* a step of the file_writer thread
WriterStep ==
  \/ file_writer_loop
  \/ file_writer_compare
  \/ write_to_file_read
  \/ write_to_file_fwrite
  \/ write_to_file_advance
  \/ write_to_file_wrap

\* The callback runs to completion once invoked, and the operating system
\* keeps scheduling the file_writer thread (Sleep returns, fwrite returns).
FairSpec == Spec /\ WF_vars(EngineStep) /\ WF_vars(WriterStep)

(* ------------- engine alone, from a host-written buffer_id ------------- *)
\* return_buffer_value: the first entry of the buffer named by id; any id
\* other than 0, 1, 2 goes to error_printer, the one place the file reports
\* an unknown buffer id
return_buffer_value ==
  /\ ~crashed /\ hpc = "idle"
  /\ \E id \in 0..3 :
       error_printed' = (error_printed \/ id \notin {0, 1, 2})
  /\ UNCHANGED <<cfg_vars, engine_vars, writer_vars, python_restart_function_ptr,
                 file_pointer, file_writer_stop, thread_handle, hpc,
                 ghost_vars, misuse, crashed>>

\* buffer_id is a plain global the host writes; here it starts at any of the
\* ids the file knows (0, 1: hardware buffers, 2: the ring)
InitAnyId == Configure({0, 1, 2})

NextEngine ==
  \/ DriverDeliver
  \/ sum_buffer_callback
  \/ copy_double_buffer_callback_memcpy
  \/ copy_double_buffer_callback_advance
  \/ copy_double_buffer_callback_wrap
  \/ copy_double_buffer_callback_python_restart
  \/ set_restart_function_pointer
  \/ return_buffer_value

SpecAnyId == InitAnyId /\ [][NextEngine]_vars

(* ------------------------------ claims --------------------------------- *)
\* copy_double_buffer_callback has returned from every invocation so far
EngineReturned == cpc \in {"idle", "hook"}

\* ring cell c (0-based): positions [c*buffer_size, c*buffer_size + buffer_size)
RingCell(c) == SubSeq(total_buffer, c * buffer_size + 1, (c + 1) * buffer_size)

\* C1: in append mode, from W = 0 and slot id 0, after N invocations W is
\* (N mod L) * buffer_size and each of the last min(N, L) chunks c_k lies in
\* ring cell (k-1) mod L.
C1_AppendRingContent ==
  (AppendMode /\ EngineReturned) =>
    LET N == Len(delivered)
        L == total_buffer_length
    IN /\ current_buffer_position = (N % L) * buffer_size
       /\ \A k \in 1..N : k > N - L => RingCell((k - 1) % L) = Chunk(k)

\* three chunks into a two-cell ring: wrapped once, cell 0 rewritten
C1_Witness ==
  /\ AppendMode /\ EngineReturned
  /\ total_buffer_length = 2 /\ buffer_size = 4 /\ Len(delivered) = 3
  /\ current_buffer_position = 4
  /\ total_buffer = <<9, 10, 11, 12, 5, 6, 7, 8>>

\* C2: the slot id alternates 0,1,0,1,... in both modes: invocation n reads
\* hardware buffer (n-1) mod 2 and leaves the id flipped.
C2_SlotAlternates ==
  /\ \A n \in 1..Len(read_log) : read_log[n] = (n - 1) % 2
  /\ cpc # "called" => Len(read_log) = Len(delivered)
  /\ cpc \in {"idle", "hook", "wrapchk"} => buffer_id = Len(delivered) % 2

C2_Witness ==
  /\ callback = "sum_buffer_callback" /\ cpc = "idle"
  /\ read_log = <<0, 1, 0>> /\ buffer_id = 1

RECURSIVE ChunkColumnSum(_, _)
\* chunk_1[j] + ... + chunk_n[j], chunk_k the first buffer_size samples of delivery k
ChunkColumnSum(n, j) ==
  IF n = 0 THEN 0 ELSE ChunkColumnSum(n - 1, j) + Chunk(n)[j + 1]

RECURSIVE SegmentColumnSum(_, _, _)
\* the samples at position j of the first m segments of each of the first n
\* deliveries, added up
SegmentColumnSum(n, m, j) ==
  IF n = 0 THEN 0
  ELSE IF m = 0 THEN SegmentColumnSum(n - 1, number_of_measurements, j)
  ELSE SegmentColumnSum(n, m - 1, j) + delivered[n][(m - 1) * buffer_size + j + 1]

\* C3 as stated: in accumulate mode Accumulator[j] is the sum over the
\* delivered chunks of chunk[j], whatever number_of_measurements is.
C3_AccumulatorIsChunkSum ==
  (callback = "sum_buffer_callback" /\ cpc = "idle") =>
    \A j \in 0..(buffer_size - 1) :
      qudi_buffer[j + 1] = ChunkColumnSum(Len(delivered), j)

\* C3 amended: Accumulator[j] is the sum, over the deliveries and over the
\* number_of_measurements segments of each hardware buffer, of the sample at
\* position j of the segment.
C3_AccumulatorIsSegmentSum ==
  (callback = "sum_buffer_callback" /\ cpc = "idle") =>
    \A j \in 0..(buffer_size - 1) :
      qudi_buffer[j + 1] =
        SegmentColumnSum(Len(delivered), number_of_measurements, j)

\* two deliveries of two segments each: 1 + 5 + 9 + 13 at position 0
C3_Witness ==
  /\ callback = "sum_buffer_callback" /\ cpc = "idle"
  /\ number_of_measurements = 2 /\ buffer_size = 4
  /\ delivered = << <<1, 2, 3, 4, 5, 6, 7, 8>>, <<9, 10, 11, 12, 13, 14, 15, 16>> >>
  /\ qudi_buffer = <<28, 32, 36, 40>>

\* C4: a drain tick advances R exactly to the W it read (never beyond it),
\* or to the ring end when that W was behind R, and leaves R at that position
\* taken modulo the ring; with buffer_size = 4, L = 2, one delivery and one
\* tick the file holds 1,2,3,4 and R = 4.
C4_TickStopsAtObservedW ==
  last_tick.phase = "done" =>
    LET t == last_tick
        target == t.r_old + t.advanced
    IN /\ t.w_obs >= t.r_old => target = t.w_obs
       /\ t.w_obs < t.r_old => target = RingSamples
       /\ current_writer_position = target % RingSamples
       /\ ( /\ buffer_size = 4 /\ total_buffer_length = 2
            /\ Len(delivered) = 1 /\ number_writer_called = 1
            /\ t.written = t.requested )
          => (file = <<1, 2, 3, 4>> /\ current_writer_position = 4)

\* the tick of the scenario: one delivery, one tick
C4_Witness ==
  /\ last_tick.phase = "done"
  /\ buffer_size = 4 /\ total_buffer_length = 2 /\ Len(delivered) = 1
  /\ file = <<1, 2, 3, 4>> /\ current_writer_position = 4

\* C5: while fewer than L chunks are unflushed at every moment and the
\* storage calls succeed, the file is a prefix of the delivered chunks in
\* acquisition order.
C5_FileIsPrefixOfDelivered ==
  (AppendMode /\ ~overrun /\ faults = 0) =>
    IsPrefix(file, Concat(1, Len(delivered)))

\* C6: once a chunk has been copied over samples the writer had not flushed,
\* the program has reported it.
C6_OverflowIsReported == data_lost => error_printed

\* C7: write_to_file advances R by no more than fwrite reported written.
C7_CursorHeldAtShortWrite ==
  last_tick.phase \in {"advanced", "done"} =>
    last_tick.advanced <= last_tick.written

\* C8: an invocation entered with a buffer_id other than 0 and 1 transfers
\* nothing and ends with the fault reported.
C8_UnknownIdFaults ==
  (entry_id \notin {0, 1} /\ delivered # <<>> /\ cpc = "idle") =>
    /\ total_buffer = Zeros(total_buffer_length * buffer_size)
    /\ qudi_buffer = Zeros(buffer_size)
    /\ current_buffer_position = 0
    /\ error_printed

\* C9: the second of two close_file_writer_thread calls in a row after a
\* successful create hands neither a NULL thread handle to CloseHandle nor a
\* NULL stream to fclose.
C9_SecondCloseIsNoOp ==
  (last_close.created /\ last_close.calls = 2) =>
    (last_close.handle # "NULL" /\ last_close.stream # "NULL")

\* C10: both cursors are inside the ring in every state.
C10_CursorsInRange ==
  /\ 0 <= current_buffer_position /\ current_buffer_position < RingSamples
  /\ 0 <= current_writer_position /\ current_writer_position < RingSamples

\* C11: at rest (the callback has returned and no drain tick is under way)
\* the samples copied into the ring and not yet in the file number
\* (W - R) mod (L*buffer_size); so R = W only when nothing waits.
C11_UnpersistedIsCursorDistance ==
  (AppendMode /\ EngineReturned /\ wpc \notin {"fwrite", "advance", "wrapchk"}) =>
    Len(read_log) * buffer_size - Len(file) =
      (current_buffer_position - current_writer_position) % RingSamples

\* C12: with a hook registered, every invocation of the restart variant has
\* called the hook once when it returns, and the n-th hook call sees W after
\* n chunks with the wrap done, (n mod L) * buffer_size, and the slot id
\* after n flips.
C12_HookAfterTransfer ==
  (callback = "copy_double_buffer_callback_python_restart"
     /\ python_restart_function_ptr = "hook") =>
    /\ \A n \in 1..Len(hook_log) :
         /\ hook_log[n] = <<(n % total_buffer_length) * buffer_size, n % 2>>
         /\ hook_log[n][1] < RingSamples
    /\ Len(hook_log) =
         IF cpc \in {"idle", "called"} THEN Len(read_log) ELSE Len(read_log) - 1

\* three invocations on a two-cell ring: the second hook call sees W wrapped
C12_Witness ==
  /\ callback = "copy_double_buffer_callback_python_restart" /\ cpc = "idle"
  /\ total_buffer_length = 2
  /\ hook_log = << <<1, 1>>, <<0, 0>>, <<1, 1>> >>

\* the file_writer thread can still run a whole tick within MaxWriterCalls
TickBudget == number_writer_called < MaxWriterCalls \/ wpc \notin {"compare", "read"}

\* C13: once file_writer_stop is set, a running file_writer thread ends
\* (unless the process is terminated); it ends only from the top of its loop
\* with the flag set, so never between the read of W and the wrap of R of a
\* tick, and once ended it starts no tick.
C13_StopEndsThread ==
  /\ (file_writer_stop # 0 /\ wpc # "none" /\ TickBudget)
       ~> (wpc \in {"exited", "none"} \/ crashed)
  /\ [][ /\ (wpc # "exited" /\ wpc' = "exited") =>
             (wpc = "loop" /\ file_writer_stop # 0)
         /\ wpc = "exited" => wpc' \in {"exited", "none"} ]_vars

\* the thread has ended on the stop flag after draining a chunk, and the
\* host is still in its wait
C13_Witness ==
  /\ wpc = "exited" /\ file_writer_stop = 1 /\ hpc = "waiting"
  /\ file = <<1, 2, 3, 4>>

\* C14: in a start/stop cycle whose create opened the file and started the
\* thread, the stream stays open as long as the thread exists, no fwrite is
\* handed a closed stream, and the close call of the cycle hands CloseHandle
\* the thread's handle and fclose the open stream, after the thread ended.
C14_CloseAfterThreadEnd ==
  last_close.created =>
    /\ wpc # "none" => file_pointer = "open"
    /\ last_tick.stream # "NULL"
    /\ last_close.calls = 0 => (thread_handle = "valid" /\ file_pointer = "open")
    /\ last_close.calls = 1 =>
         /\ last_close.handle = "valid" /\ last_close.stream = "open"
         /\ wpc = "none" /\ thread_handle = "NULL" /\ file_pointer = "NULL"

\* one cycle done: created, a chunk written, closed once
C14_Witness ==
  /\ last_close.created /\ last_close.calls = 1
  /\ last_close.stream = "open" /\ wpc = "none" /\ file = <<1, 2, 3, 4>>

\* C15: a file_writer thread exists only with an open storage stream (a
\* create_file_writer_thread whose fopen_s failed starts none).
C15_NoThreadWithoutStorage == thread_handle = "valid" => file_pointer = "open"

\* C16: the callbacks never change R; the file_writer thread and the
\* create/close calls never change W, buffer_id or the ring contents.
C16_SingleWriterPerCursor ==
  [][ /\ EngineStep => UNCHANGED current_writer_position
      /\ (WriterStep \/ create_file_writer_thread
            \/ close_file_writer_thread_stop \/ close_file_writer_thread_join)
           => UNCHANGED <<current_buffer_position, buffer_id, total_buffer>> ]_vars

\* both sides have moved their own cursor: the engine has wrapped W to 0
\* after two chunks while R stands at 4 after one tick
C16_Witness ==
  /\ buffer_size = 4 /\ total_buffer_length = 2 /\ Len(delivered) = 2
  /\ cpc = "idle" /\ current_buffer_position = 0
  /\ wpc = "loop" /\ current_writer_position = 4 /\ file = <<1, 2, 3, 4>>

\* C17: the restart variant never calls through an unset hook pointer.
C17_MissingHookIsNoOp == "call_NULL_function_pointer" \notin misuse

\* length of the run a tick takes for the cursor values r and w it read
RunLength(r, w) == IF w > r THEN w - r ELSE RingSamples - r

\* C18: a tick that read R # W and whose fwrite wrote all it was handed
\* appends exactly the ring positions [R, R + length), length being W - R
\* when W > R and L*buffer_size - R when W < R; the run ends at or before
\* the ring end; the tick leaves R = (R + length) mod (L*buffer_size).
C18_OneContiguousRun ==
  /\ [][ ( /\ wpc = "fwrite" /\ wpc' = "advance"
           /\ last_tick.w_obs # last_tick.r_old
           /\ last_tick'.stream = "open"
           /\ last_tick'.written = last_tick.requested ) =>
         LET r == last_tick.r_old
             n == RunLength(r, last_tick.w_obs)
         IN /\ r + n <= RingSamples
            /\ file' = file \o SubSeq(total_buffer, r + 1, r + n) ]_vars
  /\ []( (last_tick.phase = "done" /\ last_tick.w_obs # last_tick.r_old) =>
           current_writer_position =
             (last_tick.r_old + RunLength(last_tick.r_old, last_tick.w_obs))
               % RingSamples )

\* a tick that found W wrapped behind R: it took the run 5..8 up to the ring
\* end and left R = 0
C18_Witness ==
  /\ last_tick.phase = "done" /\ last_tick.r_old = 4 /\ last_tick.w_obs = 0
  /\ total_buffer_length = 2 /\ buffer_size = 4
  /\ file = <<1, 2, 3, 4, 5, 6, 7, 8>> /\ current_writer_position = 0

\* C19: in append mode from W = R = 0, both cursors stay multiples of
\* buffer_size, every chunk copy lands in [W, W + buffer_size) inside the
\* ring, and every tick reads [R, R + length) inside the ring, also when it
\* read W = L*buffer_size between the increment and the wrap.
C19_AccessesInsideRing ==
  AppendMode =>
    /\ current_buffer_position % buffer_size = 0
    /\ current_writer_position % buffer_size = 0
    /\ current_buffer_position <= RingSamples
    /\ current_writer_position <= RingSamples
    /\ "memcpy_out_of_bounds" \notin misuse
    /\ cpc \in {"idle", "called"} => current_buffer_position + buffer_size <= RingSamples
    /\ last_tick.phase # "none" =>
         /\ last_tick.requested >= 0
         /\ last_tick.r_old + last_tick.requested <= RingSamples

\* a tick that read W = L*buffer_size before the callback wrapped it, after
\* two chunks were copied
C19_Witness ==
  /\ total_buffer_length = 2 /\ buffer_size = 4
  /\ last_tick.phase = "done" /\ last_tick.r_old = 4 /\ last_tick.w_obs = 8
  /\ last_tick.requested = 4 /\ Len(read_log) = 2

\* chunk k stands in the file
InFile(k) ==
  /\ k <= Len(delivered)
  /\ \E i \in 0..(Len(file) - buffer_size) :
       SubSeq(file, i + 1, i + buffer_size) = Chunk(k)

\* the file_writer thread is running on an open stream in append mode
Draining == AppendMode /\ wpc \notin {"none", "exited"} /\ file_pointer = "open"

\* the conditions of C20 no longer hold: stop requested, a storage call
\* failed, the engine has caught up with R by a full ring, the thread or the
\* process is gone; or the thread stands at a write_to_file call beyond
\* MaxWriterCalls
Excused ==
  \/ file_writer_stop # 0 \/ faults > 0 \/ crashed
  \/ overrun \/ data_lost
  \/ Cardinality({k \in 1..Len(read_log) : ~InFile(k)}) >= total_buffer_length
  \/ ~Draining
  \/ (wpc = "read" /\ number_writer_called >= MaxWriterCalls)

\* C20: while the thread drains, every chunk copied into the ring gets into
\* the file, and the system comes to rest with the callback returned, R = W
\* and every copied chunk in the file.
C20_EveryChunkPersisted ==
  /\ \A k \in 1..MaxDeliveries :
       (Draining /\ Len(read_log) >= k) ~> (InFile(k) \/ Excused)
  /\ Draining ~>
       \/ /\ cpc = "idle"
          /\ current_writer_position = current_buffer_position
          /\ \A k \in 1..Len(read_log) : InFile(k)
       \/ Excused

\* three chunks delivered and drained one by one on a two-cell ring
C20_Witness ==
  /\ Draining /\ ~Excused /\ total_buffer_length = 2 /\ buffer_size = 4
  /\ cpc = "idle" /\ Len(read_log) = 3
  /\ current_writer_position = 4 /\ current_buffer_position = 4
  /\ file = <<1, 2, 3, 4, 5, 6, 7, 8, 9, 10, 11, 12>>
====
